---- MODULE Spec2Model ----
(***************************************************************************)
(* The pairing and relay server of connect-online (AppGateway): the        *)
(* matchmaking queue, the socket-to-room directory, the signal and chat    *)
(* relay and the leave/disconnect cleanup, with the transport's rooms and  *)
(* the events each handler emits.                                          *)
(***************************************************************************)
EXTENDS Integers, Sequences, FiniteSets, TLC

\* Number of connections the transport ever hands out (each with a fresh id).
MaxConn == 3

\* Cap of the per-connection count of partner_disconnected notices.
MaxNotices == 3

\* Connection identifiers (socket.io's client.id): opaque strings.
IdNames == <<"A", "B", "C", "D", "E", "F">>

Ids == {IdNames[i] : i \in 1..MaxConn}

\* Position of an identifier, used only to list a room's members in a fixed order.
IdIndex(c) == CHOOSE i \in 1..MaxConn : IdNames[i] = c

\* Opaque signalling payloads, caller-supplied targets and chat texts.
Signals == {"offer", "candidate"}

Targets == {"partner", "A"}

Texts == {"hi", "yo"}

VARIABLES
    conn,          \* transport: each identifier is "new", "live" or "closed"
    waitingQueue,  \* AppGateway.waitingQueue: sequence of identifiers
    socketToRoom,  \* AppGateway.socketToRoom: identifier -> room identifier or NoRoom
    rooms,         \* transport: the pairs <<room identifier, joined identifier>>
    outbox,        \* events emitted by the handler that ran last, in order
    ev,            \* the inbound event that handler processed
    pdReceived     \* client: "Partner disconnected." notices since last match_found

vars == <<conn, waitingQueue, socketToRoom, rooms, outbox, ev, pdReceived>>

----------------------------------------------------------------------------
\* Helpers of the data model

\* Variant: the two identifiers are put in a canonical order first.
RoomIdSorted(partnerId, clientId) ==
    IF (CHOOSE i \in 1..MaxConn : IdNames[i] = partnerId)
           <= (CHOOSE i \in 1..MaxConn : IdNames[i] = clientId)
    THEN <<partnerId, clientId>>
    ELSE <<clientId, partnerId>>

\* `room_${partnerId}_${client.id}`: the two identifiers in that order.
RoomId(partnerId, clientId) == <<partnerId, clientId>>

Live(c) == conn[c] = "live"

\* this.socketToRoom.get(id) of an identifier that has no entry (undefined).
NoRoom == <<>>

\* this.socketToRoom.has(id)
Has(id) == socketToRoom[id] # NoRoom

\* this.waitingQueue.includes(id)
Includes(q, id) == \E i \in 1..Len(q) : q[i] = id

\* The members of a set of identifiers, in a fixed order.
RECURSIVE SeqOf(_)
SeqOf(S) ==
    IF S = {} THEN <<>>
    ELSE LET c == CHOOSE x \in S : \A y \in S : IdIndex(x) <= IdIndex(y)
         IN  <<c>> \o SeqOf(S \ {c})

\* One emitted event per recipient.
Emit(S, event, data) ==
    LET s == SeqOf(S)
    IN  [i \in 1..Len(s) |-> [to |-> s[i], event |-> event, data |-> data]]

\* The members of a room (a room nobody joined is empty).
Members(rms, r) == {c \in Ids : <<r, c>> \in rms}

Event(type, client, target, body) ==
    [type |-> type, client |-> client, target |-> target, body |-> body]

----------------------------------------------------------------------------
Init ==
    /\ conn = [c \in Ids |-> "new"]
    /\ waitingQueue = <<>>
    /\ socketToRoom = [c \in Ids |-> NoRoom]
    /\ rooms = {}
    /\ outbox = <<>>
    /\ ev = Event("init", "none", "none", "none")
    /\ pdReceived = [c \in Ids |-> 0]

\* The client's notice count after the events of `out` have reached it:
\* match_found clears the message list, partner_disconnected appends a notice.
RECURSIVE Deliver(_, _)
Deliver(pd, out) ==
    IF out = <<>> THEN pd
    ELSE LET e == Head(out)
             n == IF e.event = "match_found" THEN 0
                  ELSE IF e.event = "partner_disconnected"
                       THEN (IF pd[e.to] < MaxNotices THEN pd[e.to] + 1 ELSE pd[e.to])
                       ELSE pd[e.to]
         IN  Deliver([pd EXCEPT ![e.to] = n], Tail(out))

\* handleConnection: logs only.
HandleConnection(c) ==
    /\ conn[c] = "new"
    /\ conn' = [conn EXCEPT ![c] = "live"]
    /\ outbox' = <<>>
    /\ ev' = Event("connect", c, "none", "none")
    /\ UNCHANGED <<waitingQueue, socketToRoom, rooms, pdReceived>>

----------------------------------------------------------------------------
\* join_queue

\* Variant: the early return tests the queue only, not the directory.
JoinBranchNoRoomCheck(c) ==
    IF Includes(waitingQueue, c) THEN "ignored"
    ELSE IF Len(waitingQueue) > 0
         THEN (IF Head(waitingQueue) = c THEN "selfpair" ELSE "matched")
         ELSE "enqueued"

\* Variant: the early return tests the directory only, not the queue.
JoinBranchNoQueueCheck(c) ==
    IF Has(c) THEN "ignored"
    ELSE IF Len(waitingQueue) > 0
         THEN (IF Head(waitingQueue) = c THEN "selfpair" ELSE "matched")
         ELSE "enqueued"

\* Variant: the already-queued/already-paired test is folded into the match
\* condition, so a repeated join falls through to the enqueue branch.
JoinBranchFoldedGuard(c) ==
    IF Len(waitingQueue) > 0 /\ ~(Has(c) \/ Includes(waitingQueue, c))
    THEN (IF Head(waitingQueue) = c THEN "selfpair" ELSE "matched")
    ELSE "enqueued"

\* Variant: the match condition is this.waitingQueue.length > 1.
JoinBranchOffByOne(c) ==
    IF Has(c) \/ Includes(waitingQueue, c) THEN "ignored"
    ELSE IF Len(waitingQueue) > 1
         THEN (IF Head(waitingQueue) = c THEN "selfpair" ELSE "matched")
         ELSE "enqueued"

\* The path handleJoinQueue takes for client c: the early return, the
\* self-pair guard, the match, or the enqueue.
JoinBranch(c) ==
    IF Has(c) \/ Includes(waitingQueue, c) THEN "ignored"
    ELSE IF Len(waitingQueue) > 0
         THEN (IF Head(waitingQueue) = c THEN "selfpair" ELSE "matched")
         ELSE "enqueued"

\* Variant: the head is read (this.waitingQueue[0]) but not removed.
ShiftPeek(q) == [partnerId |-> Head(q), rest |-> q]

\* this.waitingQueue.shift(): the element removed and the queue left.
Shift(q) == [partnerId |-> Head(q), rest |-> Tail(q)]

\* Variant: the identifier is pushed onto a copy that is thrown away.
PushLost(q, id) == q

\* this.waitingQueue.push(id)
Push(q, id) == Append(q, id)

\* Variant: the lookup of the identifier's socket finds nothing.
SocketOfNone(id) == {}

\* The transport's socket of an identifier, when it is connected
\* (this.server.sockets.sockets.get(id)?.; this.server.to(id)).
SocketOf(id) == IF Live(id) THEN {id} ELSE {}

\* Variant: the two roles are exchanged.
IsInitiatorSwapped(id, c) == id # c

\* The role sent to member id of a session formed by the join_queue of c:
\* client.emit('is_initiator', true), to(partnerId).emit('is_initiator', false).
IsInitiator(id, c) == id = c

HandleJoinQueue(c) ==
    /\ Live(c)
    /\ ev' = Event("join_queue", c, "none", "none")
    /\ LET branch == JoinBranch(c)
           sh == Shift(waitingQueue)
           partnerId == sh.partnerId
           roomId == RoomId(partnerId, c)
           joined == rooms \cup {<<roomId, m>> : m \in {c} \cup SocketOf(partnerId)}
       IN  CASE branch = "ignored" ->
                  /\ outbox' = <<>>
                  /\ UNCHANGED <<waitingQueue, socketToRoom, rooms>>
             [] branch = "selfpair" ->
                  /\ waitingQueue' = Push(sh.rest, c)
                  /\ outbox' = <<>>
                  /\ UNCHANGED <<socketToRoom, rooms>>
             [] branch = "matched" ->
                  /\ waitingQueue' = sh.rest
                  /\ socketToRoom' = [socketToRoom EXCEPT ![c] = roomId,
                                                          ![partnerId] = roomId]
                  /\ rooms' = joined
                  /\ outbox' = Emit(Members(joined, roomId), "match_found",
                                    [roomId |-> roomId])
                               \o Emit({c}, "is_initiator", IsInitiator(c, c))
                               \o Emit(SocketOf(partnerId), "is_initiator",
                                       IsInitiator(partnerId, c))
             [] branch = "enqueued" ->
                  /\ waitingQueue' = Push(waitingQueue, c)
                  /\ outbox' = Emit({c}, "waiting_for_match", "none")
                  /\ UNCHANGED <<socketToRoom, rooms>>
    /\ pdReceived' = Deliver(pdReceived, outbox')
    /\ UNCHANGED conn

----------------------------------------------------------------------------
\* leave_room and disconnect

\* Variant: the filter's test is inverted (id === socketId).
FilterKeep(q, socketId) == SelectSeq(q, LAMBDA id : id = socketId)

\* this.waitingQueue.filter((id) => id !== socketId)
FilterOut(q, socketId) == SelectSeq(q, LAMBDA id : id # socketId)

\* Variant: the room is left as it is.
SocketsStay(rms, roomId) == rms

\* this.server.in(roomId).socketsLeave(roomId): every member leaves the room.
SocketsLeave(rms, roomId) == {m \in rms : m[1] # roomId}

\* Variant: the leaving socket's entry is not deleted.
KeepMapping(dir, socketId, roomId) == dir

\* The directory after handleUserLeave's cleanup: this.socketToRoom.delete(socketId).
DeleteMapping(dir, socketId, roomId) == [dir EXCEPT ![socketId] = NoRoom]

\* The transport takes a closing socket out of every room before the gateway's
\* handleDisconnect runs.
LeaveAll(rms, c) == {m \in rms : m[2] # c}

\* handleUserLeave(socketId), run with the transport's rooms being rms.
HandleUserLeave(socketId, rms) ==
    /\ waitingQueue' = FilterOut(waitingQueue, socketId)
    /\ LET roomId == socketToRoom[socketId]
       IN  IF roomId # NoRoom
           THEN /\ outbox' = Emit(Members(rms, roomId), "partner_disconnected", "none")
                /\ rooms' = SocketsLeave(rms, roomId)
                /\ socketToRoom' = DeleteMapping(socketToRoom, socketId, roomId)
           ELSE /\ outbox' = <<>>
                /\ rooms' = rms
                /\ UNCHANGED socketToRoom
    /\ pdReceived' = Deliver(pdReceived, outbox')

HandleLeaveRoom(c) ==
    /\ Live(c)
    /\ ev' = Event("leave_room", c, "none", "none")
    /\ HandleUserLeave(c, rooms)
    /\ UNCHANGED conn

HandleDisconnect(c) ==
    /\ Live(c)
    /\ ev' = Event("disconnect", c, "none", "none")
    /\ conn' = [conn EXCEPT ![c] = "closed"]
    /\ HandleUserLeave(c, LeaveAll(rooms, c))

----------------------------------------------------------------------------
\* signal and send_message

\* Variant: this.server.to(roomId), the whole room, sender included.
ToWholeRoom(c, roomId) == Members(rooms, roomId)

\* client.to(roomId): the room's members except the sending socket.
ToRoomExceptSender(c, roomId) == Members(rooms, roomId) \ {c}

\* { sender: client.id, signal: payload.signal }
SignalData(c, signal) == [sender |-> c, signal |-> signal]

\* Variant: the chat relay names the sender as the signal relay does.
MessageDataWithId(c, text) == [sender |-> c, text |-> text]

\* { sender: 'partner', text: payload.text }
MessageData(c, text) == [sender |-> "partner", text |-> text]

HandleSignal(c, target, signal) ==
    /\ Live(c)
    /\ ev' = Event("signal", c, target, signal)
    /\ LET roomId == socketToRoom[c]
       IN  outbox' = IF roomId # NoRoom
                     THEN Emit(ToRoomExceptSender(c, roomId), "signal",
                               SignalData(c, signal))
                     ELSE <<>>
    /\ pdReceived' = Deliver(pdReceived, outbox')
    /\ UNCHANGED <<conn, waitingQueue, socketToRoom, rooms>>

HandleMessage(c, text) ==
    /\ Live(c)
    /\ ev' = Event("send_message", c, "none", text)
    /\ LET roomId == socketToRoom[c]
       IN  outbox' = IF roomId # NoRoom
                     THEN Emit(ToRoomExceptSender(c, roomId), "receive_message",
                               MessageData(c, text))
                     ELSE <<>>
    /\ pdReceived' = Deliver(pdReceived, outbox')
    /\ UNCHANGED <<conn, waitingQueue, socketToRoom, rooms>>

----------------------------------------------------------------------------
Next ==
    \/ \E c \in Ids : HandleConnection(c)
    \/ \E c \in Ids : HandleDisconnect(c)
    \/ \E c \in Ids : HandleJoinQueue(c)
    \/ \E c \in Ids : HandleLeaveRoom(c)
    \/ \E c \in Ids, target \in Targets, signal \in Signals : HandleSignal(c, target, signal)
    \/ \E c \in Ids, text \in Texts : HandleMessage(c, text)

Spec == Init /\ [][Next]_vars

----------------------------------------------------------------------------
\* Vocabulary of the properties

\* a and b are the two members of a live session: both map to the same room.
PairedWith(a, b) ==
    /\ a # b
    /\ socketToRoom[a] # NoRoom
    /\ socketToRoom[a] = socketToRoom[b]

Queued(c) == Includes(waitingQueue, c)

\* The step being taken handles leave_room or disconnect of a.
Leaves(a) == ev'.type \in {"leave_room", "disconnect"} /\ ev'.client = a

\* The events of a kind that the last handler emitted to c.
Got(out, c, event) == {i \in 1..Len(out) : out[i].to = c /\ out[i].event = event}

\* C1: whenever a connection A paired with B performs leave_room or
\* disconnects, the directory right after that event has no entry for A and
\* none for B.
C1_BothEntriesRemoved ==
    [][\A a, b \in Ids :
          (PairedWith(a, b) /\ Leaves(a))
              => (socketToRoom'[a] = NoRoom /\ socketToRoom'[b] = NoRoom)]_vars

\* C2: session symmetry: in every reachable state, a connection that maps to
\* a session has both members of that session mapping to it.
C2_SessionSymmetry ==
    \A a \in Ids :
        Has(a) => LET S == socketToRoom[a]
                  IN  socketToRoom[S[1]] = S /\ socketToRoom[S[2]] = S

\* C3: after X and Y are paired and X leaves or disconnects, Y is Idle (in
\* neither the queue nor the directory) and a join_queue by Y is not ignored:
\* it enqueues Y or pairs Y.
C3_RemainingMemberCanRejoin ==
    [][\A x, y \in Ids :
          (PairedWith(x, y) /\ Leaves(x))
              => /\ socketToRoom'[y] = NoRoom
                 /\ ~Queued(y)'
                 /\ JoinBranch(y)' \in {"enqueued", "matched"}]_vars

\* C4: when A leaves or disconnects while paired with B, that event delivers
\* exactly one partner_disconnected to B, and B never holds more than one
\* partner_disconnected notice for one session (the count restarts at
\* match_found).
C4_ExactlyOnePartnerDisconnected ==
    /\ [](\A b \in Ids : pdReceived[b] <= 1)
    /\ [][\A a, b \in Ids :
            (PairedWith(a, b) /\ Leaves(a))
                => /\ Cardinality(Got(outbox', b, "partner_disconnected")) = 1
                   /\ pdReceived[b] = 0
                   /\ pdReceived'[b] = 1]_vars

\* A has just left a live session and its partner holds its one notice.
C4_Witness ==
    \E a, b \in Ids :
        /\ ev.type \in {"leave_room", "disconnect"} /\ ev.client = a
        /\ a # b /\ socketToRoom[b] \in {RoomId(a, b), RoomId(b, a)}
        /\ Cardinality(Got(outbox, b, "partner_disconnected")) = 1
        /\ pdReceived[b] = 1

\* C5: state exclusivity: no connection is in the queue and in the directory
\* at once.
C5_StateExclusivity ==
    \A c \in Ids : ~(Queued(c) /\ Has(c))

\* One connection waits while two others are paired.
C5_Witness ==
    \E c, d, e \in Ids : Queued(c) /\ ~Has(c) /\ PairedWith(d, e)

\* C6: queue uniqueness: the queue never holds an identifier twice.
C6_QueueUniqueness ==
    \A i, j \in 1..Len(waitingQueue) :
        waitingQueue[i] = waitingQueue[j] => i = j

\* A queued connection has just sent join_queue again and is still queued once.
C6_Witness ==
    /\ ev.type = "join_queue"
    /\ Queued(ev.client)
    /\ outbox = <<>>

C8_NoSelfPair ==
    /\ \A c \in Ids : Has(c) => socketToRoom[c][1] # socketToRoom[c][2]
    /\ \A c \in Ids : Live(c) => JoinBranch(c) # "selfpair"

\* A join_queue has just dequeued a partner other than the joiner.
C8_Witness ==
    /\ ev.type = "join_queue"
    /\ Has(ev.client)
    /\ socketToRoom[ev.client][2] = ev.client
    /\ socketToRoom[ev.client][1] # ev.client

\* C9: signal relay: a signal sent by X while paired with Y emits exactly one
\* event, a signal to Y carrying sender X and the payload as sent, whatever
\* the target named by the caller.
C9_SignalRelay ==
    \A x, y \in Ids :
        (ev.type = "signal" /\ ev.client = x /\ PairedWith(x, y))
            => outbox = << [to |-> y, event |-> "signal",
                            data |-> [sender |-> x, signal |-> ev.body]] >>

\* A paired connection has just sent a signal naming a target that is not its
\* partner, and the partner got it.
C9_Witness ==
    \E x, y \in Ids :
        /\ ev.type = "signal" /\ ev.client = x /\ PairedWith(x, y)
        /\ ev.target \in Ids \ {y}
        /\ Got(outbox, y, "signal") # {}

\* C10: chat relay: a send_message by X while paired with Y emits exactly one
\* event, a receive_message to Y with sender "partner" and the text as sent.
C10_ChatRelay ==
    \A x, y \in Ids :
        (ev.type = "send_message" /\ ev.client = x /\ PairedWith(x, y))
            => outbox = << [to |-> y, event |-> "receive_message",
                            data |-> [sender |-> "partner", text |-> ev.body]] >>

\* A paired connection has just sent a chat text and its partner got it.
C10_Witness ==
    \E x, y \in Ids :
        /\ ev.type = "send_message" /\ ev.client = x /\ PairedWith(x, y)
        /\ Got(outbox, y, "receive_message") # {}
        /\ Got(outbox, x, "receive_message") = {}

\* The step being taken handles join_queue of c.
Joins(c) == ev'.type = "join_queue" /\ ev'.client = c

\* The connections the last handler sent an event of a kind to.
Recipients(out, event) == {out[i].to : i \in {j \in 1..Len(out) : out[j].event = event}}

\* C11: match creation: when an Idle connection Y sends join_queue while the
\* queue is non-empty with head X, that step removes X from the queue, writes
\* X and Y into the directory with one session identifier, and sends
\* match_found with that roomId to X and to Y, once each, and to nobody else.
C11_MatchCreation ==
    [][\A y \in Ids :
          (Joins(y) /\ ~Has(y) /\ ~Queued(y) /\ Len(waitingQueue) > 0)
          => LET x == Head(waitingQueue)
             IN  /\ ~Queued(x)'
                 /\ socketToRoom'[y] # NoRoom
                 /\ socketToRoom'[x] = socketToRoom'[y]
                 /\ Recipients(outbox', "match_found") = {x, y}
                 /\ \A m \in {x, y} :
                       Cardinality(Got(outbox', m, "match_found")) = 1
                 /\ \A i \in 1..Len(outbox') :
                       outbox'[i].event = "match_found"
                           => outbox'[i].data = [roomId |-> socketToRoom'[y]]]_vars

\* A join_queue has just paired the joiner with a waiting connection, and the
\* two match_found events carry the room both now map to.
C11_Witness ==
    \E x, y \in Ids :
        /\ ev.type = "join_queue" /\ ev.client = y
        /\ PairedWith(x, y)
        /\ ~Queued(x)
        /\ Recipients(outbox, "match_found") = {x, y}
        /\ outbox[1].data = [roomId |-> socketToRoom[y]]

\* C12: role assignment: when a join_queue forms a session, the member that
\* was waiting gets exactly one is_initiator, false, the joiner gets exactly
\* one is_initiator, true, nobody else gets one, and is_initiator is sent by
\* no other event.
C12_RoleAssignment ==
    /\ \A i \in 1..Len(outbox) :
          outbox[i].event = "is_initiator"
              => (ev.type = "join_queue" /\ Recipients(outbox, "match_found") # {})
    /\ (ev.type = "join_queue" /\ Recipients(outbox, "match_found") # {})
          => LET y == ev.client
                 x == socketToRoom[y][1]
             IN  /\ x # y
                 /\ Recipients(outbox, "is_initiator") = {x, y}
                 /\ \A m \in {x, y} :
                       Cardinality(Got(outbox, m, "is_initiator")) = 1
                 /\ \A i \in 1..Len(outbox) :
                       outbox[i].event = "is_initiator"
                           => outbox[i].data = (outbox[i].to = y)

\* A session has just been formed: the joiner holds the initiator role and the
\* member that waited holds the receiver role.
C12_Witness ==
    \E x, y \in Ids :
        /\ ev.type = "join_queue" /\ ev.client = y /\ x # y
        /\ socketToRoom[y] = RoomId(x, y)
        /\ \E i, j \in 1..Len(outbox) :
              /\ outbox[i] = [to |-> y, event |-> "is_initiator", data |-> TRUE]
              /\ outbox[j] = [to |-> x, event |-> "is_initiator", data |-> FALSE]

\* C13: enqueue on empty queue: when an Idle connection sends join_queue while
\* the queue is empty, it is appended to the queue, the directory is
\* unchanged, and the only event emitted is one waiting_for_match to it;
\* conversely waiting_for_match is only ever emitted by a join_queue, to the
\* joiner, which then is queued and not in the directory.
C13_EnqueueOnEmpty ==
    /\ [][\A c \in Ids :
            (Joins(c) /\ ~Has(c) /\ ~Queued(c) /\ Len(waitingQueue) = 0)
            => /\ waitingQueue' = <<c>>
               /\ socketToRoom' = socketToRoom
               /\ outbox' = << [to |-> c, event |-> "waiting_for_match",
                                data |-> "none"] >>]_vars
    /\ [](\A i \in 1..Len(outbox) :
            outbox[i].event = "waiting_for_match"
                => /\ ev.type = "join_queue"
                   /\ outbox[i].to = ev.client
                   /\ Len(outbox) = 1
                   /\ Queued(ev.client)
                   /\ ~Has(ev.client))

\* An Idle connection has just been enqueued on the empty queue and told to wait.
C13_Witness ==
    /\ ev.type = "join_queue"
    /\ waitingQueue = <<ev.client>>
    /\ ~Has(ev.client)
    /\ Cardinality(Got(outbox, ev.client, "waiting_for_match")) = 1

\* C14: a join_queue from a connection that is already in the queue or already
\* in the directory is ignored: queue, directory and rooms are unchanged and no
\* event is emitted.
C14_JoinIgnored ==
    [][\A c \in Ids :
          (Joins(c) /\ (Queued(c) \/ Has(c)))
          => /\ waitingQueue' = waitingQueue
             /\ socketToRoom' = socketToRoom
             /\ rooms' = rooms
             /\ outbox' = <<>>]_vars

\* A member of a live session has just sent join_queue and nothing came of it.
C14_Witness ==
    /\ ev.type = "join_queue"
    /\ \E p \in Ids : PairedWith(ev.client, p) /\ socketToRoom[p][2] # ev.client
    /\ outbox = <<>>

\* C15: when a Paired connection A leaves via leave_room or disconnects,
\* partner_disconnected goes to the other member B of its session and to no
\* other connection; A itself gets none.
C15_OnlyRemainingMemberNotified ==
    [][\A a, b \in Ids :
          (PairedWith(a, b) /\ Leaves(a))
              => Recipients(outbox', "partner_disconnected") = {b}]_vars

\* C16 as stated: the session identifier does not depend on which member was
\* waiting: the identifier of a session formed with a waiting and b joining is
\* the identifier the opposite order derives.
C16_OrderIndependent ==
    \A a, b \in Ids :
        (PairedWith(a, b) /\ socketToRoom[a] = RoomId(a, b))
            => socketToRoom[a] = RoomId(b, a)

\* C16 as amended: the session identifier is derived from the ordered pair
\* (waiting member, joiner): both members of a session hold the identifier
\* with the waiting member first and the joiner second, and the opposite order
\* derives a different identifier.
C16_OrderedDerivation ==
    \A a, b \in Ids :
        PairedWith(a, b)
            => /\ socketToRoom[a] \in {<<a, b>>, <<b, a>>}
               /\ RoomId(socketToRoom[a][2], socketToRoom[a][1]) # socketToRoom[a]
               /\ (ev.type = "join_queue" /\ ev.client = b
                      /\ Recipients(outbox, "match_found") # {})
                     => socketToRoom[a] = <<a, b>>

\* Two sessions formed in opposite alphabetical order of waiting member and
\* joiner are told apart: here the later-named connection waited.
C16_Witness ==
    \E a, b \in Ids :
        /\ PairedWith(a, b)
        /\ ev.type = "join_queue" /\ ev.client = b
        /\ IdIndex(b) < IdIndex(a)
        /\ socketToRoom[b] = <<a, b>>

\* C17: after leave_room or disconnect by c, c is in neither the queue nor the
\* directory. If c was queued, only its queue entry goes (the others keep
\* their order), the directory is unchanged and nothing is emitted; if c was
\* Idle, queue and directory are unchanged and nothing is emitted.
C17_LeaveFrame ==
    [][\A c \in Ids :
          Leaves(c)
          => /\ ~Queued(c)' /\ socketToRoom'[c] = NoRoom
             /\ Queued(c)
                   => /\ waitingQueue' = SelectSeq(waitingQueue, LAMBDA id : id # c)
                      /\ socketToRoom' = socketToRoom
                      /\ outbox' = <<>>
             /\ (~Queued(c) /\ ~Has(c))
                   => /\ waitingQueue' = waitingQueue
                      /\ socketToRoom' = socketToRoom
                      /\ outbox' = <<>>]_vars

\* A connection has just disconnected silently while a session of two others
\* stays in the directory.
C17_Witness ==
    /\ ev.type = "disconnect"
    /\ conn[ev.client] = "closed"
    /\ ~Queued(ev.client) /\ ~Has(ev.client)
    /\ outbox = <<>>
    /\ \E d, e \in Ids \ {ev.client} : PairedWith(d, e)

\* The step being taken handles signal or send_message.
Relays == ev'.type \in {"signal", "send_message"}

\* C18: signal and send_message leave the queue and the directory unchanged,
\* and emit nothing when the sender has no live partner (it is Idle, Queued,
\* or its partner has left).
C18_RelaySilentWithoutSession ==
    /\ [][Relays => (waitingQueue' = waitingQueue /\ socketToRoom' = socketToRoom)]_vars
    /\ [](ev.type \in {"signal", "send_message"}
             => (outbox # <<>> => \E y \in Ids : PairedWith(ev.client, y)))

\* A connection whose partner has left, still holding its entry, has just sent
\* a signal or a message and nothing was emitted.
C18_Witness ==
    /\ ev.type \in {"signal", "send_message"}
    /\ Has(ev.client)
    /\ ~\E y \in Ids : PairedWith(ev.client, y)
    /\ outbox = <<>>

\* C19: every identifier in the queue and every key of the directory is a
\* connection that has connected and not yet disconnected.
C19_OnlyLiveConnections ==
    \A c \in Ids : (Queued(c) \/ Has(c)) => Live(c)

\* A paired connection has disconnected: it has no entry of its own, while its
\* former partner's entry still names their room.
C19_Witness ==
    \E c, d \in Ids :
        /\ conn[c] = "closed"
        /\ ~Has(c) /\ ~Queued(c)
        /\ Has(d) /\ c \in {socketToRoom[d][1], socketToRoom[d][2]}

\* C20: the queue never holds more than one connection.
C20_QueueAtMostOne ==
    Len(waitingQueue) <= 1

\* A join_queue has just found the one waiting connection and paired with it,
\* emptying the queue.
C20_Witness ==
    /\ ev.type = "join_queue"
    /\ Has(ev.client)
    /\ Recipients(outbox, "match_found") # {}
    /\ waitingQueue = <<>>

====
